---- MODULE Spec2Model ----
(***************************************************************************)
(* Model of the OTA_PRO firmware: the MLX90614 sensor driver               *)
(* (mlx90614_Handler.c), the SD-card storage driver (SDCardHandler.c) and  *)
(* the platform calls they make (i2c, spi, fat/vfs, stdio).                *)
(*                                                                         *)
(* Conventions                                                             *)
(*   - bytes are integers 0..255; uint8_t arithmetic is taken % 256;       *)
(*   - a file's content is a sequence of text tokens; the line terminator  *)
(*     "\n" written by fprintf is the separate token NL, so that reading   *)
(*     a file back has to split the content into lines again;              *)
(*   - temperatures are exact decimals: Celsius in hundredths of a degree, *)
(*     Fahrenheit in thousandths of a degree;                              *)
(*   - the results of platform calls that depend on the hardware (bus      *)
(*     transfer, received bytes, card present, free space) are inputs.     *)
(***************************************************************************)
EXTENDS Integers, Sequences, FiniteSets, TLC

VARIABLES
    i2cInstalled,   \* the I2C driver of MLX90614_I2C_PORT is installed
    tempcelsius,    \* app_main's float tempcelsius   (hundredths of a degree)
    tempfahrenheit, \* app_main's float tempfahrenheit (thousandths of a degree)
    txn,            \* the last bus transaction: what the hardware delivered
    sret,           \* the last sensor call and what it returned
    crcBuf,         \* the buffer handed to CalculateCrc8
    crcLen,         \* the dataLength handed to CalculateCrc8
    crcRes,         \* what CalculateCrc8 returned for it
    busHeld,        \* the SPI2 bus is initialised (spi_bus_initialize .. spi_bus_free)
    mounted,        \* a FAT filesystem is registered at MOUNT_POINT
    card,           \* the global sdmmc_card_t *card: "null", "valid" or "stale"
    files,          \* the card's files: path -> [exists, data]
    dev,            \* the card: "ok", "full" (no free space) or "gone" (pulled out)
    openFiles,      \* FILE objects open on the mount (fopen .. fclose)
    appended,       \* history: per path, the Data appended since its last CreateFile
    ret,            \* the last storage call, its arguments and what it returned
    app             \* app_main: its position, numstatus, finaldata, and what the
                    \* calls it made returned

vars == <<i2cInstalled, tempcelsius, tempfahrenheit, txn, sret,
          crcBuf, crcLen, crcRes,
          busHeld, mounted, card, files, dev, openFiles, appended, ret, app>>

sensorVars == <<i2cInstalled, tempcelsius, tempfahrenheit, txn, sret>>
crcVars == <<crcBuf, crcLen, crcRes>>
storageVars == <<busHeld, mounted, card, files, dev, openFiles, appended, ret>>

(***************************************************************************)
(* Bounds of the model.                                                    *)
(***************************************************************************)
\* longest buffer handed to CalculateCrc8 (the frame of the driver has 5 bytes)
MaxCrcLen == 5
\* most tokens a file holds; a write that would exceed it is not taken
MaxTokens == 4

\* byte values the CRC specification draws its buffers from
CrcBytes == {0, 7, 180, 255}
\* data bytes the sensor delivers
LsbSamples == {0, 65, 255}
MsbSamples == {0, 68, 255}
\* integrity bytes the sensor delivers: the PEC of each of the nine frames above
\* (6, 72, 209 for lsb 0, 65, 255 with msb 0; 221, 147, 10 with msb 68;
\* 245, 187, 34 with msb 255), the first of them with one bit flipped (7),
\* and 255
PecSamples == {6, 72, 209, 221, 147, 10, 245, 187, 34, 7, 255}
\* what the uninitialised floats of app_main may hold before the first read
StackGarbage == {0, 12345}
\* how many tokens of a buffered write still reach a full card: none (a write
\* that ends in the last free cluster could still take some; the model leaves
\* that out)
ShortWrites == {0}

(***************************************************************************)
(* esp_err.h                                                               *)
(***************************************************************************)
ESP_OK == 0
ESP_FAIL == -1
ESP_ERR_NO_MEM == 257
ESP_ERR_INVALID_ARG == 258
ESP_ERR_INVALID_STATE == 259
ESP_ERR_NOT_FOUND == 261
ESP_ERR_TIMEOUT == 263

\* a value converted to uint8_t
ToUint8(x) == x % 256

(***************************************************************************)
(* mlx90614_Handler.h                                                      *)
(***************************************************************************)
MLX90614_ADDR == 90
MLX90614_REG_ADDR == 7
I2C_MASTER_WRITE == 0
I2C_MASTER_READ == 1
CRC8_POLYNOMIAL == 7
RETURN_NUM_MLX90614_READSUCCESSFULLY == 0
RETURN_NUM_MLX90614_READFAIL == 1
RETURN_NUM_MLX90614_INITSUCCESSFULLY == 2
RETURN_NUM_MLX90614_INITFAIL == 3

(***************************************************************************)
(* Bit operations of C on non-negative integers.                           *)
(***************************************************************************)
RECURSIVE BitXor(_, _)
BitXor(a, b) ==
    IF a = 0 THEN b
    ELSE IF b = 0 THEN a
    ELSE ((a + b) % 2) + 2 * BitXor(a \div 2, b \div 2)

RECURSIVE BitAnd(_, _)
BitAnd(a, b) ==
    IF a = 0 \/ b = 0 THEN 0
    ELSE ((a % 2) * (b % 2)) + 2 * BitAnd(a \div 2, b \div 2)

RECURSIVE BitOr(_, _)
BitOr(a, b) ==
    IF a = 0 THEN b
    ELSE IF b = 0 THEN a
    ELSE (IF a % 2 = 1 \/ b % 2 = 1 THEN 1 ELSE 0) + 2 * BitOr(a \div 2, b \div 2)

ShiftLeft(a, n) == a * (2 ^ n)

\* the element of a one-element set: {F(v) : v \in {e}} computes e once and
\* F on its value
TheValue(S) == CHOOSE v \in S : TRUE

(***************************************************************************)
(* CalculateCrc8. crc is a uint8_t: (crc << 1) ^ 0x07 is computed as an    *)
(* int and truncated by the assignment.                                    *)
(***************************************************************************)
\* the body of the loop over bitIndex
CrcRound[crc \in 0..255] ==
    IF BitAnd(crc, 128) # 0
    THEN ToUint8(BitXor(ShiftLeft(crc, 1), CRC8_POLYNOMIAL))
    ELSE ToUint8(ShiftLeft(crc, 1))

\* for (bitIndex = 0; bitIndex < 8; bitIndex++)
RECURSIVE CrcBitLoop(_, _)
CrcBitLoop(crc, bitIndex) ==
    IF bitIndex < 8
    THEN CrcBitLoop(CrcRound[crc], bitIndex + 1)
    ELSE crc

\* for (byteIndex = 0; byteIndex < dataLength; byteIndex++): crc ^=
\* pecbuffer[byteIndex], then the loop over the bits; next is crc after it
RECURSIVE CrcByteLoop(_, _, _, _)
CrcByteLoop(crc, pecbuffer, dataLength, byteIndex) ==
    IF byteIndex < dataLength
    THEN TheValue({CrcByteLoop(next, pecbuffer, dataLength, byteIndex + 1) :
                     next \in {CrcBitLoop(BitXor(crc, pecbuffer[byteIndex + 1]), 0)}})
    ELSE crc

\* mutant: the loop over the bytes stops one byte early
CalculateCrc8_ShortLoop(pecbuffer, dataLength) ==
    CrcByteLoop(0, pecbuffer, IF dataLength > 0 THEN dataLength - 1 ELSE 0, 0)

\* mutant: the accumulator starts at 0xFF
CalculateCrc8_InitFF(pecbuffer, dataLength) ==
    CrcByteLoop(255, pecbuffer, dataLength, 0)

CalculateCrc8(pecbuffer, dataLength) ==
    CrcByteLoop(0, pecbuffer, dataLength, 0)

(***************************************************************************)
(* CRC-8 as defined: the remainder of message(x) * x^8 divided by          *)
(* G(x) = x^8 + x^2 + x + 1 over GF(2), the bits of each byte taken most   *)
(* significant first, no reflection, zero initial value, no final xor.     *)
(* Computed from the definition, not by the driver's shift register: the   *)
(* remainder is linear, so it is the sum (xor) of x^(k+8) mod G over the   *)
(* positions k of the message's 1 bits, counted from its end.              *)
(***************************************************************************)
\* bit i of a
Bit(a, i) == (a \div (2 ^ i)) % 2

\* the sum of two polynomials of degree < 8 over GF(2)
PolyAdd(a, b) ==
      ((Bit(a, 0) + Bit(b, 0)) % 2)
    + ((Bit(a, 1) + Bit(b, 1)) % 2) * 2
    + ((Bit(a, 2) + Bit(b, 2)) % 2) * 4
    + ((Bit(a, 3) + Bit(b, 3)) % 2) * 8
    + ((Bit(a, 4) + Bit(b, 4)) % 2) * 16
    + ((Bit(a, 5) + Bit(b, 5)) % 2) * 32
    + ((Bit(a, 6) + Bit(b, 6)) % 2) * 64
    + ((Bit(a, 7) + Bit(b, 7)) % 2) * 128

\* p(x) * x mod G: x^8 = x^2 + x + 1 mod G
PolyMulX[p \in 0..255] ==
    IF p < 128 THEN 2 * p ELSE PolyAdd(2 * (p - 128), 7)

\* x^k mod G
RECURSIVE PolyXPow(_)
PolyXPow(k) == IF k = 0 THEN 1 ELSE PolyMulX[PolyXPow(k - 1)]

\* the sum of term[1..n]
RECURSIVE PolySum(_, _)
PolySum(term, n) ==
    IF n = 0 THEN 0
    ELSE TheValue({PolyAdd(a, b) : a \in {term[n]}, b \in {PolySum(term, n - 1)}})

Crc8Ref(bytes) ==
    LET n == Len(bytes)
        \* bit j of byte i stands for x^(8 * (n - i) + j) of the message
        term == [t \in 1..(8 * n) |->
                    LET i == ((t - 1) \div 8) + 1
                        j == (t - 1) % 8
                    IN  IF Bit(bytes[i], j) = 1
                        THEN PolyXPow(8 * (n - i) + j + 8)
                        ELSE 0]
    IN  PolySum(term, 8 * n)

(***************************************************************************)
(* The platform's I2C driver, as far as the sensor driver depends on it.   *)
(***************************************************************************)
\* i2c_driver_install: fails when the port's driver is already installed or
\* when there is no memory for it
I2cDriverInstall(installed, memOk) ==
    IF installed THEN ESP_FAIL
    ELSE IF memOk THEN ESP_OK
    ELSE ESP_ERR_NO_MEM

\* i2c_master_cmd_begin: without an installed driver the transfer is refused;
\* otherwise the bus decides (ESP_OK, a missing acknowledge, a timeout)
I2cMasterCmdBegin(installed, busErr) ==
    IF installed THEN busErr ELSE ESP_ERR_INVALID_STATE

BusErrors == {ESP_OK, ESP_FAIL, ESP_ERR_TIMEOUT}

(***************************************************************************)
(* MLX90614I2CInit                                                         *)
(***************************************************************************)
MLX90614I2CInit(installed, cfgErr, memOk) ==
    IF cfgErr # ESP_OK
    THEN [val |-> RETURN_NUM_MLX90614_INITFAIL, installed |-> installed]
    ELSE IF I2cDriverInstall(installed, memOk) = ESP_OK
         THEN [val |-> RETURN_NUM_MLX90614_INITSUCCESSFULLY, installed |-> TRUE]
         ELSE [val |-> RETURN_NUM_MLX90614_INITFAIL, installed |-> installed]

(***************************************************************************)
(* MLX90614ReadTemp                                                        *)
(***************************************************************************)
\* mutant: the two data bytes are put into the frame in the wrong order
PecBuffer_Swapped(lsb, msb) ==
    << BitOr(ShiftLeft(MLX90614_ADDR, 1), I2C_MASTER_WRITE),
       MLX90614_REG_ADDR,
       BitOr(ShiftLeft(MLX90614_ADDR, 1), I2C_MASTER_READ),
       msb,
       lsb >>

\* pecbuffer[0..4] as the driver fills it
PecBuffer(lsb, msb) ==
    << BitOr(ShiftLeft(MLX90614_ADDR, 1), I2C_MASTER_WRITE),
       MLX90614_REG_ADDR,
       BitOr(ShiftLeft(MLX90614_ADDR, 1), I2C_MASTER_READ),
       lsb,
       msb >>

\* mutant: the two bytes are assembled high byte first
RawTemp_BigEndian(lsb, msb) == BitOr(ShiftLeft(lsb, 8), msb) % 65536

\* uint16_t rawtemp = (msb << 8) | lsb
RawTemp(lsb, msb) == BitOr(ShiftLeft(msb, 8), lsb) % 65536

\* rawtemp * 0.02 - 273.15, in hundredths of a degree
Celsius(rawtemp) == 2 * rawtemp - 27315

\* 1.8 * celsius + 32.0, in thousandths of a degree (celsius in hundredths)
Fahrenheit(celsius) == 18 * celsius + 32000

\* mutant: the outputs are stored before the integrity byte is compared
MLX90614ReadTemp_StoreFirst(c, f, err, lsb, msb, pec) ==
    IF err # ESP_OK
    THEN [val |-> RETURN_NUM_MLX90614_READFAIL, c |-> c, f |-> f]
    ELSE LET celsius == Celsius(RawTemp(lsb, msb))
         IN  IF CalculateCrc8(PecBuffer(lsb, msb), 5) # pec
             THEN [val |-> RETURN_NUM_MLX90614_READFAIL,
                   c |-> celsius, f |-> Fahrenheit(celsius)]
             ELSE [val |-> RETURN_NUM_MLX90614_READSUCCESSFULLY,
                   c |-> celsius, f |-> Fahrenheit(celsius)]

\* c, f: what *tempcelsius and *tempfahrenheit hold before the call;
\* err: what i2c_master_cmd_begin returned; lsb, msb, pec: the bytes it stored
MLX90614ReadTemp(c, f, err, lsb, msb, pec) ==
    IF err # ESP_OK
    THEN [val |-> RETURN_NUM_MLX90614_READFAIL, c |-> c, f |-> f]
    ELSE LET calcpec == CalculateCrc8(PecBuffer(lsb, msb), 5)
         IN  IF calcpec # pec
             THEN [val |-> RETURN_NUM_MLX90614_READFAIL, c |-> c, f |-> f]
             ELSE LET celsius == Celsius(RawTemp(lsb, msb))
                  IN  [val |-> RETURN_NUM_MLX90614_READSUCCESSFULLY,
                       c |-> celsius,
                       f |-> Fahrenheit(celsius)]

(***************************************************************************)
(* SDCardHandler.h                                                         *)
(***************************************************************************)
MOUNT_POINT == "/sdcard"
SDTAG == "SD_CARD"
RETURN_NUM_SDCARD_MOUNTSUCCESSFULLY == 0
RETURN_NUM_SDCARD_MOUNTFAIL == 1
RETURN_NUM_SDCARD_WRITESUCCESSFULL == 2
RETURN_NUM_SDCARD_WRITEFAIL == 3
RETURN_NUM_SDCARD_READSUCCESSFULL == 4
RETURN_NUM_SDCARD_READFAIL == 5
RETURN_NUM_SDCARD_APPENDSUCCESSFULLY == 6
RETURN_NUM_SDCARD_APPENDFAIL == 7
RETURN_NUM_SDCARD_DELETEFILESUCCESSFULLY == 8
RETURN_NUM_SDCARD_DELETEFILEFAIL == 9

\* mount_config.max_files
MaxFiles == 5

\* the two files the firmware uses
MlxFilePath == MOUNT_POINT \o "/MLX90614.txt"
LogFilePath == MOUNT_POINT \o "/SDCARD.txt"
Paths == {MlxFilePath, LogFilePath}

\* the line terminator
NL == "\n"
NoFile == [exists |-> FALSE, data |-> <<>>]
EmptyFile == [exists |-> TRUE, data |-> <<>>]

Min(a, b) == IF a < b THEN a ELSE b

(***************************************************************************)
(* The platform under the storage driver. S is the state of the system:    *)
(* [busHeld, mounted, card, files, dev, open].                             *)
(***************************************************************************)
\* spi_bus_initialize: refused when the host is already initialised; otherwise
\* hwErr is what the allocation of the bus gives (ESP_OK, no memory, no DMA
\* channel)
SpiBusInitialize(S, hwErr) ==
    IF S.busHeld THEN [err |-> ESP_ERR_INVALID_STATE, S |-> S]
    ELSE IF hwErr = ESP_OK THEN [err |-> ESP_OK, S |-> [S EXCEPT !.busHeld = TRUE]]
    ELSE [err |-> hwErr, S |-> S]

SpiBusErrors == {ESP_OK, ESP_ERR_NO_MEM, ESP_ERR_NOT_FOUND}

\* spi_bus_free: refused when the host is not initialised or a device is still
\* attached to it (the card is, from the mount until the unmount)
SpiBusFree(S) ==
    IF ~S.busHeld \/ S.mounted THEN [err |-> ESP_ERR_INVALID_STATE, S |-> S]
    ELSE [err |-> ESP_OK, S |-> [S EXCEPT !.busHeld = FALSE]]

\* esp_vfs_fat_sdspi_mount: on success registers the filesystem and stores the
\* new card in *out_card; on failure it undoes what it did and leaves *out_card
\* alone. cardOk: a usable card answers.
EspVfsFatSdspiMount(S, cardOk) ==
    IF S.mounted THEN [err |-> ESP_ERR_INVALID_STATE, S |-> S]
    ELSE IF ~S.busHeld THEN [err |-> ESP_ERR_INVALID_ARG, S |-> S]
    ELSE IF cardOk
         THEN [err |-> ESP_OK, S |-> [S EXCEPT !.mounted = TRUE, !.card = "valid"]]
         ELSE [err |-> ESP_FAIL, S |-> S]

\* esp_vfs_fat_sdcard_unmount: looks the card up among the mounted ones; frees it
\* and unregisters the filesystem when found
EspVfsFatSdcardUnmount(S) ==
    IF S.mounted /\ S.card = "valid"
    THEN [err |-> ESP_OK, S |-> [S EXCEPT !.mounted = FALSE, !.card = "stale"]]
    ELSE [err |-> ESP_ERR_INVALID_ARG, S |-> S]

\* esp_vfs_fat_info: the counters of the filesystem registered at the path, an
\* error when none is
EspVfsFatInfo(S) ==
    IF S.mounted THEN ESP_OK ELSE ESP_ERR_INVALID_STATE

\* fopen on a path under MOUNT_POINT: NULL when nothing is mounted there, the
\* card does not answer or all file slots are taken; "r" needs the file; "w"
\* creates or truncates it; "a" creates it when it is missing and keeps it
\* otherwise
FOpen(S, path, mode) ==
    IF ~S.mounted \/ S.dev = "gone" \/ S.open >= MaxFiles
    THEN [ok |-> FALSE, S |-> S]
    ELSE IF mode = "r"
         THEN IF S.files[path].exists
              THEN [ok |-> TRUE, S |-> [S EXCEPT !.open = @ + 1]]
              ELSE [ok |-> FALSE, S |-> S]
    ELSE IF mode = "w"
         THEN [ok |-> TRUE,
               S |-> [S EXCEPT !.open = @ + 1, !.files[path] = EmptyFile]]
    ELSE [ok |-> TRUE,
          S |-> [S EXCEPT !.open = @ + 1,
                          !.files[path] = IF @.exists THEN @ ELSE EmptyFile]]

\* fclose of a stream nothing was written to
FClose(S) == [S EXCEPT !.open = @ - 1]

\* fclose of a stream opened with "w" or "a" after fprintf put buf into its
\* buffer: the buffer is written behind the file's content. A full card takes
\* only the first tokens of it (short of them, never all); neither fprintf nor
\* fclose's result is looked at by any caller.
FCloseWritten(S, path, buf, short) ==
    LET n == IF S.dev = "ok" THEN Len(buf) ELSE Min(short, Len(buf) - 1)
    IN  [S EXCEPT !.open = @ - 1,
                  !.files[path].data = @ \o SubSeq(buf, 1, n)]

\* unlink
Unlink(S, path) ==
    IF S.mounted /\ S.files[path].exists
    THEN [rc |-> 0, S |-> [S EXCEPT !.files[path] = NoFile]]
    ELSE [rc |-> -1, S |-> S]

\* fgets(line, 128, f) until it returns NULL: each call gives the tokens up to
\* and including the next line terminator, the last one what is left
RECURSIVE FGetsAll(_, _)
FGetsAll(data, line) ==
    IF data = <<>>
    THEN IF line = <<>> THEN <<>> ELSE <<line>>
    ELSE IF Head(data) = NL
         THEN <<Append(line, NL)>> \o FGetsAll(Tail(data), <<>>)
         ELSE FGetsAll(Tail(data), Append(line, Head(data)))

(***************************************************************************)
(* SDCardHandler.c: the file operations. Each takes the system state S and *)
(* gives the state after the call and the value returned.                  *)
(***************************************************************************)
\* mutant: returns true without fclose
FileExists_NoClose(S, StringPath) ==
    LET file == FOpen(S, StringPath, "r")
    IN  IF file.ok
        THEN [S |-> file.S, val |-> TRUE]
        ELSE [S |-> file.S, val |-> FALSE]

\* mutant: reports the file as present whatever fopen returned
FileExists_NoNullCheck(S, StringPath) ==
    LET file == FOpen(S, StringPath, "r")
    IN  IF file.ok
        THEN [S |-> FClose(file.S), val |-> TRUE]
        ELSE [S |-> file.S, val |-> TRUE]

FileExists(S, StringPath) ==
    LET file == FOpen(S, StringPath, "r")
    IN  IF file.ok
        THEN [S |-> FClose(file.S), val |-> TRUE]
        ELSE [S |-> file.S, val |-> FALSE]

\* mutant: opens as the comment above the function says ("in append mode")
CreateFile_Append(S, StringPath) ==
    LET PtrFile == FOpen(S, StringPath, "a")
    IN  IF ~PtrFile.ok
        THEN [S |-> PtrFile.S, val |-> FALSE]
        ELSE [S |-> FClose(PtrFile.S), val |-> TRUE]

CreateFile(S, StringPath) ==
    LET PtrFile == FOpen(S, StringPath, "w")
    IN  IF ~PtrFile.ok
        THEN [S |-> PtrFile.S, val |-> FALSE]
        ELSE [S |-> FClose(PtrFile.S), val |-> TRUE]

\* what the two fprintf calls of WriteFile put into the stream
WriteFileContent == <<"sectr!", NL, "CONSOLE.", NL>>

\* mutant: opens in append mode, keeping what the file held
WriteFile_Append(S, StringPath, short) ==
    LET PtrFile == FOpen(S, StringPath, "a")
    IN  IF ~PtrFile.ok
        THEN [S |-> PtrFile.S, val |-> RETURN_NUM_SDCARD_WRITEFAIL]
        ELSE [S |-> FCloseWritten(PtrFile.S, StringPath, WriteFileContent, short),
              val |-> RETURN_NUM_SDCARD_WRITESUCCESSFULL]

WriteFile(S, StringPath, short) ==
    LET PtrFile == FOpen(S, StringPath, "w")
    IN  IF ~PtrFile.ok
        THEN [S |-> PtrFile.S, val |-> RETURN_NUM_SDCARD_WRITEFAIL]
        ELSE [S |-> FCloseWritten(PtrFile.S, StringPath, WriteFileContent, short),
              val |-> RETURN_NUM_SDCARD_WRITESUCCESSFULL]

\* mutant: returns after the loop without fclose
ReadFile_NoClose(S, StringPath) ==
    LET PtrFile == FOpen(S, StringPath, "r")
    IN  IF ~PtrFile.ok
        THEN [S |-> PtrFile.S, val |-> RETURN_NUM_SDCARD_READFAIL, out |-> <<>>]
        ELSE [S |-> PtrFile.S,
              val |-> RETURN_NUM_SDCARD_READSUCCESSFULL,
              out |-> FGetsAll(S.files[StringPath].data, <<>>)]

\* out: what the printf calls of the loop put on the console, one entry per fgets
ReadFile(S, StringPath) ==
    LET PtrFile == FOpen(S, StringPath, "r")
    IN  IF ~PtrFile.ok
        THEN [S |-> PtrFile.S, val |-> RETURN_NUM_SDCARD_READFAIL, out |-> <<>>]
        ELSE [S |-> FClose(PtrFile.S),
              val |-> RETURN_NUM_SDCARD_READSUCCESSFULL,
              out |-> FGetsAll(S.files[StringPath].data, <<>>)]

AppendFile(S, StringPath, Data, short) ==
    LET PtrFile == FOpen(S, StringPath, "a")
    IN  IF ~PtrFile.ok
        THEN [S |-> PtrFile.S, val |-> RETURN_NUM_SDCARD_APPENDFAIL]
        ELSE [S |-> FCloseWritten(PtrFile.S, StringPath, <<Data, NL>>, short),
              val |-> RETURN_NUM_SDCARD_APPENDSUCCESSFULLY]

\* mutant: removes the file and reports the failure code
DeleteFile_WrongCode(S, StringPath) ==
    LET rm == Unlink(S, StringPath)
    IN  [S |-> rm.S, val |-> RETURN_NUM_SDCARD_DELETEFILEFAIL]

DeleteFile(S, StringPath) ==
    LET rm == Unlink(S, StringPath)
    IN  IF rm.rc = 0
        THEN [S |-> rm.S, val |-> RETURN_NUM_SDCARD_DELETEFILESUCCESSFULLY]
        ELSE [S |-> rm.S, val |-> RETURN_NUM_SDCARD_DELETEFILEFAIL]

LogToSDCard(S, tag, message, short) ==
    LET filePath == LogFilePath
        probe == FileExists(S, filePath)
        made == IF ~probe.val
                THEN CreateFile(probe.S, filePath)
                ELSE [S |-> probe.S, val |-> TRUE]
    IN  IF ~made.val
        THEN [S |-> made.S, val |-> RETURN_NUM_SDCARD_APPENDFAIL]
        ELSE LET PtrFile == FOpen(made.S, filePath, "a")
             IN  IF ~PtrFile.ok
                 THEN [S |-> PtrFile.S, val |-> RETURN_NUM_SDCARD_APPENDFAIL]
                 ELSE [S |-> FCloseWritten(PtrFile.S, filePath,
                                           <<tag \o ": " \o message, NL>>, short),
                       val |-> RETURN_NUM_SDCARD_APPENDSUCCESSFULLY]

\* the two lines sprintf makes of the card's counters, whole megabytes printed
\* with "%.2f": a card of 7580 MB, of which 7579 MB are free until it is full
TotalSpaceLine == "Total Space: 7580.00 MB"
FreeSpaceLine(S) ==
    IF S.dev = "full" THEN "Free Space: 0.00 MB" ELSE "Free Space: 7579.00 MB"

\* the function returns nothing
GetSdCardSpace(S, short) ==
    LET ret_ == EspVfsFatInfo(S)
    IN  IF ret_ = ESP_OK
        THEN LET total == LogToSDCard(S, SDTAG, TotalSpaceLine, short)
             IN  [S |-> LogToSDCard(total.S, SDTAG, FreeSpaceLine(S), short).S]
        ELSE [S |-> LogToSDCard(S, SDTAG, "Failed to get SD card info", short).S]

(***************************************************************************)
(* SDCardHandler.c: mount and unmount.                                     *)
(***************************************************************************)
\* mutant: returns on a failed mount without spi_bus_free
InitSdCard_KeepBus(S, hwErr, cardOk, short) ==
    LET log1 == LogToSDCard(S, SDTAG, "Initializing SD card...", short)
        bus == SpiBusInitialize(log1.S, hwErr)
    IN  IF bus.err # ESP_OK
        THEN LET log2 == LogToSDCard(bus.S, SDTAG, "Failed to initialize SPI bus", short)
             IN  [S |-> log2.S, val |-> ToUint8(bus.err), log |-> log1.val,
                  calls |-> <<"spi_bus_initialize">>]
        ELSE LET mnt == EspVfsFatSdspiMount(bus.S, cardOk)
             IN  IF mnt.err # ESP_OK
                 THEN [S |-> mnt.S,
                       val |-> RETURN_NUM_SDCARD_MOUNTFAIL, log |-> log1.val,
                       calls |-> <<"spi_bus_initialize", "esp_vfs_fat_sdspi_mount">>]
                 ELSE [S |-> mnt.S,
                       val |-> RETURN_NUM_SDCARD_MOUNTSUCCESSFULLY, log |-> log1.val,
                       calls |-> <<"spi_bus_initialize", "esp_vfs_fat_sdspi_mount">>]

\* hwErr: what the allocation of the SPI bus gives; cardOk: a usable card
\* answers the mount; log: what the first LogToSDCard call returned (the code
\* drops it); calls: the platform calls made, in order
InitSdCard(S, hwErr, cardOk, short) ==
    LET log1 == LogToSDCard(S, SDTAG, "Initializing SD card...", short)
        bus == SpiBusInitialize(log1.S, hwErr)
    IN  IF bus.err # ESP_OK
        THEN LET log2 == LogToSDCard(bus.S, SDTAG, "Failed to initialize SPI bus", short)
             IN  [S |-> log2.S, val |-> ToUint8(bus.err), log |-> log1.val,
                  calls |-> <<"spi_bus_initialize">>]
        ELSE LET mnt == EspVfsFatSdspiMount(bus.S, cardOk)
             IN  IF mnt.err # ESP_OK
                 THEN [S |-> SpiBusFree(mnt.S).S,
                       val |-> RETURN_NUM_SDCARD_MOUNTFAIL, log |-> log1.val,
                       calls |-> <<"spi_bus_initialize", "esp_vfs_fat_sdspi_mount",
                                   "spi_bus_free">>]
                 ELSE [S |-> mnt.S,
                       val |-> RETURN_NUM_SDCARD_MOUNTSUCCESSFULLY, log |-> log1.val,
                       calls |-> <<"spi_bus_initialize", "esp_vfs_fat_sdspi_mount">>]

\* mutant: releases the bus whatever the unmount returned
SdCardUnmount_AlwaysFree(S) ==
    LET um == EspVfsFatSdcardUnmount(S)
        free == SpiBusFree(um.S)
    IN  [S |-> free.S,
         val |-> IF um.err # ESP_OK THEN "SD Card unmount failed."
                 ELSE IF free.err = ESP_OK THEN "SD Card unmounted successfully."
                 ELSE "SPI bus release failed after unmount.",
         calls |-> <<"esp_vfs_fat_sdcard_unmount", "spi_bus_free">>]

\* val: the line the function prints (it returns nothing)
SdCardUnmount(S) ==
    LET um == EspVfsFatSdcardUnmount(S)
    IN  IF um.err = ESP_OK
        THEN LET free == SpiBusFree(um.S)
             IN  [S |-> free.S,
                  val |-> IF free.err = ESP_OK
                          THEN "SD Card unmounted successfully."
                          ELSE "SPI bus release failed after unmount.",
                  calls |-> <<"esp_vfs_fat_sdcard_unmount", "spi_bus_free">>]
        ELSE [S |-> um.S, val |-> "SD Card unmount failed.",
              calls |-> <<"esp_vfs_fat_sdcard_unmount">>]

(***************************************************************************)
(* State the specifications start from.                                    *)
(***************************************************************************)
NoTxn == [err |-> ESP_OK, lsb |-> 0, msb |-> 0, pec |-> 0]
NoSensorCall == [op |-> "none", val |-> 0]
NotTracked == [on |-> FALSE, lines |-> <<>>]
\* val: the code a uint8_t function returned; ok: what a bool function returned;
\* msg: the line SdCardUnmount printed; out: the lines ReadFile printed
NoCall == [op |-> "none", path |-> "", data |-> "", val |-> 0, ok |-> FALSE,
           msg |-> "", out |-> <<>>, log |-> 0, calls |-> <<>>]

SensorIdle ==
    /\ i2cInstalled = FALSE
    /\ tempcelsius = 0
    /\ tempfahrenheit = 0
    /\ txn = NoTxn
    /\ sret = NoSensorCall

CrcIdle ==
    /\ crcBuf = <<>>
    /\ crcLen = 0
    /\ crcRes = -1

\* app_main has not started. pc: the call app_main makes next; mount, i2c: what
\* InitSdCard and MLX90614I2CInit returned (-1 before the call); read: what
\* MLX90614ReadTemp returned in this iteration of the loop (-1 before the
\* call); reads: the number of MLX90614ReadTemp calls so far, modulo 2
NoApp == [pc |-> "none", numstatus |-> 0, finaldata |-> "", mount |-> -1,
          i2c |-> -1, read |-> -1, reads |-> 0]

AppIdle == app = NoApp

StorageIdle ==
    /\ busHeld = FALSE
    /\ mounted = FALSE
    /\ card = "null"
    /\ files = [p \in Paths |-> NoFile]
    /\ dev = "ok"
    /\ openFiles = 0
    /\ appended = [p \in Paths |-> NotTracked]
    /\ ret = NoCall

(***************************************************************************)
(* The CRC function on its own: a buffer is drawn, CalculateCrc8 is        *)
(* applied to its first dataLength bytes.                                  *)
(***************************************************************************)
\* every buffer over CrcBytes up to the bound, and every single byte
CrcBuffers ==
    UNION {[1..n -> CrcBytes] : n \in 0..MaxCrcLen} \cup {<<b>> : b \in 0..255}

InitCrc ==
    /\ crcBuf \in CrcBuffers
    /\ crcLen = 0
    /\ crcRes = -1
    /\ SensorIdle
    /\ StorageIdle
    /\ AppIdle

CallCalculateCrc8 ==
    /\ \E dataLength \in 0..Len(crcBuf) :
          /\ crcLen' = dataLength
          /\ crcRes' = CalculateCrc8(crcBuf, dataLength)
    /\ UNCHANGED <<crcBuf, sensorVars, storageVars, app>>

NextCrc == CallCalculateCrc8

SpecCrc == InitCrc /\ [][NextCrc]_vars

(***************************************************************************)
(* The sensor driver: MLX90614I2CInit and MLX90614ReadTemp called in any   *)
(* order, the outputs being app_main's two floats.                         *)
(***************************************************************************)
InitSensor ==
    /\ i2cInstalled = FALSE
    /\ tempcelsius \in StackGarbage
    /\ tempfahrenheit \in StackGarbage
    /\ txn = NoTxn
    /\ sret = NoSensorCall
    /\ CrcIdle
    /\ StorageIdle
    /\ AppIdle

CallMLX90614I2CInit ==
    /\ \E cfgErr \in {ESP_OK, ESP_ERR_INVALID_ARG}, memOk \in BOOLEAN :
          LET r == MLX90614I2CInit(i2cInstalled, cfgErr, memOk)
          IN  /\ i2cInstalled' = r.installed
              /\ sret' = [op |-> "MLX90614I2CInit", val |-> r.val]
    /\ UNCHANGED <<tempcelsius, tempfahrenheit, txn, crcVars, storageVars, app>>

\* The three bytes are stored by a transfer that completed; after one that did
\* not, lsb, msb and pec are uninitialised and never read (txn shows one fixed
\* choice for them, a frame whose pec would have matched).
CallMLX90614ReadTemp ==
    /\ \E busErr \in BusErrors, lsb \in LsbSamples, msb \in MsbSamples,
          pec \in PecSamples :
          LET err == I2cMasterCmdBegin(i2cInstalled, busErr)
              r == MLX90614ReadTemp(tempcelsius, tempfahrenheit, err, lsb, msb, pec)
          IN  /\ err # ESP_OK => lsb = 0 /\ msb = 0 /\ pec = 6
              /\ txn' = [err |-> err, lsb |-> lsb, msb |-> msb, pec |-> pec]
              /\ tempcelsius' = r.c
              /\ tempfahrenheit' = r.f
              /\ sret' = [op |-> "MLX90614ReadTemp", val |-> r.val]
    /\ UNCHANGED <<i2cInstalled, crcVars, storageVars, app>>

NextSensor ==
    \/ CallMLX90614I2CInit
    \/ CallMLX90614ReadTemp

SpecSensor == InitSensor /\ [][NextSensor]_vars

(***************************************************************************)
(* The storage driver: its functions called in any order on the two files  *)
(* of the firmware, while the card fills up and is freed again.            *)
(***************************************************************************)
\* what app_main appends
DataSamples == {"celsius=76.31", "celsius=-273.15"}
\* a card as it is inserted: each file missing, or left by an earlier run
OldContent == <<"celsius=20.00", NL>>
InitialCards ==
    {[p \in Paths |-> IF p = MlxFilePath THEN f ELSE NoFile] :
        f \in {NoFile, [exists |-> TRUE, data |-> OldContent]}}

Init ==
    /\ busHeld = FALSE
    /\ mounted = FALSE
    /\ card = "null"
    /\ files \in InitialCards
    /\ dev = "ok"
    /\ openFiles = 0
    /\ appended = [p \in Paths |-> NotTracked]
    /\ ret = NoCall
    /\ SensorIdle
    /\ CrcIdle
    /\ AppIdle

Sys == [busHeld |-> busHeld, mounted |-> mounted, card |-> card,
        files |-> files, dev |-> dev, open |-> openFiles]

\* the state after a call; a call that would grow a file beyond the bound of
\* the model is not taken
Commit(S) ==
    /\ \A p \in Paths : Len(S.files[p].data) <= MaxTokens
    /\ busHeld' = S.busHeld
    /\ mounted' = S.mounted
    /\ card' = S.card
    /\ files' = S.files
    /\ dev' = S.dev
    /\ openFiles' = S.open

Untrack(p) == [appended EXCEPT ![p] = NotTracked]

CallInitSdCard ==
    /\ \E hwErr \in SpiBusErrors, cardOk \in BOOLEAN, short \in ShortWrites :
          LET r == InitSdCard(Sys, hwErr, cardOk, short)
          IN  /\ Commit(r.S)
              /\ ret' = [NoCall EXCEPT !.op = "InitSdCard", !.val = r.val,
                                       !.log = r.log, !.calls = r.calls]
    /\ appended' = Untrack(LogFilePath)
    /\ UNCHANGED <<sensorVars, crcVars, app>>

CallSdCardUnmount ==
    /\ LET r == SdCardUnmount(Sys)
       IN  /\ Commit(r.S)
           /\ ret' = [NoCall EXCEPT !.op = "SdCardUnmount", !.msg = r.val,
                                    !.calls = r.calls]
    /\ UNCHANGED <<appended, sensorVars, crcVars, app>>

CallLogToSDCard ==
    /\ \E short \in ShortWrites :
          LET r == LogToSDCard(Sys, SDTAG, "Initializing SD card...", short)
          IN  /\ Commit(r.S)
              /\ ret' = [NoCall EXCEPT !.op = "LogToSDCard", !.path = LogFilePath,
                                       !.val = r.val]
    /\ appended' = Untrack(LogFilePath)
    /\ UNCHANGED <<sensorVars, crcVars, app>>

CallFileExists ==
    /\ \E p \in Paths :
          LET r == FileExists(Sys, p)
          IN  /\ Commit(r.S)
              /\ ret' = [NoCall EXCEPT !.op = "FileExists", !.path = p, !.ok = r.val]
    /\ UNCHANGED <<appended, sensorVars, crcVars, app>>

CallCreateFile ==
    /\ \E p \in Paths :
          LET r == CreateFile(Sys, p)
          IN  /\ Commit(r.S)
              /\ ret' = [NoCall EXCEPT !.op = "CreateFile", !.path = p, !.ok = r.val]
              /\ appended' = [appended EXCEPT ![p] =
                                 IF r.val THEN [on |-> TRUE, lines |-> <<>>]
                                 ELSE NotTracked]
    /\ UNCHANGED <<sensorVars, crcVars, app>>

CallWriteFile ==
    /\ \E p \in Paths, short \in ShortWrites :
          LET r == WriteFile(Sys, p, short)
          IN  /\ Commit(r.S)
              /\ ret' = [NoCall EXCEPT !.op = "WriteFile", !.path = p, !.val = r.val]
              /\ appended' = Untrack(p)
    /\ UNCHANGED <<sensorVars, crcVars, app>>

CallReadFile ==
    /\ \E p \in Paths :
          LET r == ReadFile(Sys, p)
          IN  /\ Commit(r.S)
              /\ ret' = [NoCall EXCEPT !.op = "ReadFile", !.path = p, !.val = r.val,
                                       !.out = r.out]
    /\ UNCHANGED <<appended, sensorVars, crcVars, app>>

CallAppendFile ==
    /\ \E p \in Paths, Data \in DataSamples, short \in ShortWrites :
          LET r == AppendFile(Sys, p, Data, short)
          IN  /\ Commit(r.S)
              /\ ret' = [NoCall EXCEPT !.op = "AppendFile", !.path = p,
                                       !.data = Data, !.val = r.val]
              /\ appended' = [appended EXCEPT ![p] =
                                 IF @.on /\ r.val = RETURN_NUM_SDCARD_APPENDSUCCESSFULLY
                                 THEN [@ EXCEPT !.lines = Append(@, Data)]
                                 ELSE NotTracked]
              \* the history is kept as far as a file of the model can hold it
              /\ 2 * Len(appended'[p].lines) <= MaxTokens
    /\ UNCHANGED <<sensorVars, crcVars, app>>

CallDeleteFile ==
    /\ \E p \in Paths :
          LET r == DeleteFile(Sys, p)
          IN  /\ Commit(r.S)
              /\ ret' = [NoCall EXCEPT !.op = "DeleteFile", !.path = p, !.val = r.val]
              /\ appended' = Untrack(p)
    /\ UNCHANGED <<sensorVars, crcVars, app>>

CallGetSdCardSpace ==
    /\ \E short \in ShortWrites :
          LET r == GetSdCardSpace(Sys, short)
          IN  /\ Commit(r.S)
              /\ ret' = [NoCall EXCEPT !.op = "GetSdCardSpace"]
    /\ appended' = Untrack(LogFilePath)
    /\ UNCHANGED <<sensorVars, crcVars, app>>

\* the card runs out of free clusters
DeviceFills ==
    /\ dev = "ok"
    /\ dev' = "full"
    /\ ret' = NoCall
    /\ UNCHANGED <<busHeld, mounted, card, files, openFiles, appended,
                   sensorVars, crcVars, app>>

\* free clusters are there again
DeviceFreed ==
    /\ dev = "full"
    /\ dev' = "ok"
    /\ ret' = NoCall
    /\ UNCHANGED <<busHeld, mounted, card, files, openFiles, appended,
                   sensorVars, crcVars, app>>

Next ==
    \/ CallInitSdCard
    \/ CallSdCardUnmount
    \/ CallLogToSDCard
    \/ CallFileExists
    \/ CallCreateFile
    \/ CallWriteFile
    \/ CallReadFile
    \/ CallAppendFile
    \/ CallDeleteFile
    \/ CallGetSdCardSpace
    \/ DeviceFills
    \/ DeviceFreed

Spec == Init /\ [][Next]_vars

(***************************************************************************)
(* main.c: app_main. One step per call app_main makes; after each call the  *)
(* code decides from the value returned which call comes next.             *)
(***************************************************************************)
\* frames the sensor delivers while app_main polls: 76.31 degrees, 0 Kelvin,
\* and the first with a wrong integrity byte
MainFrames == {<<65, 68, 147>>, <<0, 0, 6>>, <<65, 68, 7>>}

\* the card of the model has room for MaxTokens tokens in a file: a write
\* that needs more finds the card full
WithCapacity(S, path, n) ==
    IF S.dev = "ok" /\ Len(S.files[path].data) + n > MaxTokens
    THEN [S EXCEPT !.dev = "full"]
    ELSE S

\* two decimal digits
TwoDigits(n) == IF n < 10 THEN "0" \o ToString(n) ELSE ToString(n)

\* sprintf(finaldata, "celsius=%.2f", tempcelsius), tempcelsius in hundredths
FinalData(celsius) ==
    LET a == IF celsius < 0 THEN -celsius ELSE celsius
    IN  "celsius=" \o (IF celsius < 0 THEN "-" ELSE "")
                   \o ToString(a \div 100) \o "." \o TwoDigits(a % 100)

\* if (InitSdCard() == RETURN_NUM_SDCARD_MOUNTSUCCESSFULLY) ... else return
AfterInitSdCard(val) ==
    IF val = RETURN_NUM_SDCARD_MOUNTSUCCESSFULLY THEN "FileExists" ELSE "return"

\* if (!FileExists(MlxFilePath)) CreateFile(MlxFilePath)
AfterFileExists(ok) ==
    IF ~ok THEN "CreateFile" ELSE "MLX90614I2CInit"

\* whatever CreateFile returned, only the line printed differs
AfterCreateFile(ok) == "MLX90614I2CInit"

\* if (MLX90614I2CInit() == RETURN_NUM_MLX90614_INITSUCCESSFULLY) ... else return
AfterMLX90614I2CInit(val) ==
    IF val = RETURN_NUM_MLX90614_INITSUCCESSFULLY THEN "settle" ELSE "return"

\* mutant: a failed read leaves the loop
AfterMLX90614ReadTemp_Abort(val) ==
    IF val = RETURN_NUM_MLX90614_READSUCCESSFULLY THEN "AppendFile" ELSE "return"

\* mutant: the line is appended whatever the read returned
AfterMLX90614ReadTemp_AlwaysAppend(val) == "AppendFile"

\* if (MLX90614ReadTemp(..) == RETURN_NUM_MLX90614_READSUCCESSFULLY) sprintf,
\* AppendFile; else only a line is printed; then vTaskDelay
AfterMLX90614ReadTemp(val) ==
    IF val = RETURN_NUM_MLX90614_READSUCCESSFULLY THEN "AppendFile" ELSE "vTaskDelay"

\* whatever numstatus is, only the line printed differs
AfterAppendFile(numstatus) == "vTaskDelay"

\* the board boots: nothing is initialised, the floats of app_main hold what
\* the stack held, the card is as it was inserted
InitMain ==
    /\ busHeld = FALSE
    /\ mounted = FALSE
    /\ card = "null"
    /\ files \in InitialCards
    /\ dev = "ok"
    /\ openFiles = 0
    /\ appended = [p \in Paths |-> NotTracked]
    /\ ret = NoCall
    /\ i2cInstalled = FALSE
    /\ tempcelsius \in StackGarbage
    /\ tempfahrenheit \in StackGarbage
    /\ txn = NoTxn
    /\ sret = NoSensorCall
    /\ CrcIdle
    /\ app = [NoApp EXCEPT !.pc = "InitSdCard"]

MainInitSdCard ==
    /\ app.pc = "InitSdCard"
    /\ \E hwErr \in SpiBusErrors, cardOk \in BOOLEAN, short \in ShortWrites :
          LET r == InitSdCard(Sys, hwErr, cardOk, short)
          IN  /\ Commit(r.S)
              /\ ret' = [NoCall EXCEPT !.op = "InitSdCard", !.val = r.val,
                                       !.log = r.log, !.calls = r.calls]
              /\ app' = [app EXCEPT !.mount = r.val, !.pc = AfterInitSdCard(r.val)]
    /\ UNCHANGED <<appended, sensorVars, crcVars>>

MainFileExists ==
    /\ app.pc = "FileExists"
    /\ LET r == FileExists(Sys, MlxFilePath)
       IN  /\ Commit(r.S)
           /\ ret' = [NoCall EXCEPT !.op = "FileExists", !.path = MlxFilePath,
                                    !.ok = r.val]
           /\ app' = [app EXCEPT !.pc = AfterFileExists(r.val)]
    /\ UNCHANGED <<appended, sensorVars, crcVars>>

MainCreateFile ==
    /\ app.pc = "CreateFile"
    /\ LET r == CreateFile(Sys, MlxFilePath)
       IN  /\ Commit(r.S)
           /\ ret' = [NoCall EXCEPT !.op = "CreateFile", !.path = MlxFilePath,
                                    !.ok = r.val]
           /\ app' = [app EXCEPT !.pc = AfterCreateFile(r.val)]
    /\ UNCHANGED <<appended, sensorVars, crcVars>>

MainMLX90614I2CInit ==
    /\ app.pc = "MLX90614I2CInit"
    /\ \E cfgErr \in {ESP_OK, ESP_ERR_INVALID_ARG}, memOk \in BOOLEAN :
          LET r == MLX90614I2CInit(i2cInstalled, cfgErr, memOk)
          IN  /\ i2cInstalled' = r.installed
              /\ sret' = [op |-> "MLX90614I2CInit", val |-> r.val]
              /\ app' = [app EXCEPT !.i2c = r.val,
                                    !.pc = AfterMLX90614I2CInit(r.val)]
    /\ UNCHANGED <<tempcelsius, tempfahrenheit, txn, crcVars, storageVars>>

\* vTaskDelay(pdMS_TO_TICKS(300)) before the loop, vTaskDelay(pdMS_TO_TICKS(1000))
\* at the end of each iteration; the next iteration starts
MainVTaskDelay ==
    /\ app.pc \in {"settle", "vTaskDelay"}
    /\ app' = [app EXCEPT !.pc = "MLX90614ReadTemp", !.read = -1]
    /\ UNCHANGED <<sensorVars, crcVars, storageVars>>

\* after a transfer that did not complete the three bytes are uninitialised
\* and never read (txn shows the frame <<0, 0, 6>> for them)
MainMLX90614ReadTemp ==
    /\ app.pc = "MLX90614ReadTemp"
    /\ \E busErr \in BusErrors, frame \in MainFrames :
          LET err == I2cMasterCmdBegin(i2cInstalled, busErr)
              r == MLX90614ReadTemp(tempcelsius, tempfahrenheit, err,
                                    frame[1], frame[2], frame[3])
          IN  /\ err # ESP_OK => frame = <<0, 0, 6>>
              /\ txn' = [err |-> err, lsb |-> frame[1], msb |-> frame[2],
                         pec |-> frame[3]]
              /\ tempcelsius' = r.c
              /\ tempfahrenheit' = r.f
              /\ sret' = [op |-> "MLX90614ReadTemp", val |-> r.val]
              /\ app' = [app EXCEPT !.read = r.val, !.reads = 1 - @,
                                    !.pc = AfterMLX90614ReadTemp(r.val)]
    /\ UNCHANGED <<i2cInstalled, crcVars, storageVars>>

\* sprintf(finaldata, ..); numstatus = AppendFile(MlxFilePath, finaldata)
MainAppendFile ==
    /\ app.pc = "AppendFile"
    /\ \E short \in ShortWrites :
          LET finaldata == FinalData(tempcelsius)
              r == AppendFile(WithCapacity(Sys, MlxFilePath, 2), MlxFilePath,
                              finaldata, short)
          IN  /\ Commit(r.S)
              /\ ret' = [NoCall EXCEPT !.op = "AppendFile", !.path = MlxFilePath,
                                       !.data = finaldata, !.val = r.val]
              /\ app' = [app EXCEPT !.finaldata = finaldata, !.numstatus = r.val,
                                    !.pc = AfterAppendFile(r.val)]
    /\ UNCHANGED <<appended, sensorVars, crcVars>>

\* the card stops answering: a fault on the bus, or the card is pulled out of
\* its slot
CardRemoved ==
    /\ dev # "gone"
    /\ dev' = "gone"
    /\ UNCHANGED <<busHeld, mounted, card, files, openFiles, appended, ret,
                   sensorVars, crcVars, app>>

\* the card answers again: the fault on the bus has passed, or the card sits
\* in its slot again
CardAnswers ==
    /\ dev = "gone"
    /\ dev' = "ok"
    /\ UNCHANGED <<busHeld, mounted, card, files, openFiles, appended, ret,
                   sensorVars, crcVars, app>>

\* the card runs out of free clusters while app_main runs
CardFills ==
    /\ dev = "ok"
    /\ dev' = "full"
    /\ UNCHANGED <<busHeld, mounted, card, files, openFiles, appended, ret,
                   sensorVars, crcVars, app>>

\* the steps of app_main
MainStep ==
    \/ MainInitSdCard
    \/ MainFileExists
    \/ MainCreateFile
    \/ MainMLX90614I2CInit
    \/ MainVTaskDelay
    \/ MainMLX90614ReadTemp
    \/ MainAppendFile

NextMain ==
    \/ MainStep
    \/ CardRemoved
    \/ CardAnswers
    \/ CardFills

SpecMain == InitMain /\ [][NextMain]_vars

\* app_main is a task the scheduler keeps running: a call that can be made is
\* made, each call and each delay returns
SpecMainFair == SpecMain /\ WF_vars(MainStep)

(***************************************************************************)
(* Properties of the sensor driver and of the CRC.                         *)
(***************************************************************************)
\* C1: after a bus transfer that completed, MLX90614ReadTemp returns
\* RETURN_NUM_MLX90614_READSUCCESSFULLY exactly when the received pec equals
\* CalculateCrc8 over the frame {0xB4, 0x07, 0xB5, lsb, msb}, and
\* RETURN_NUM_MLX90614_READFAIL on every mismatch, whatever lsb and msb are.
C1_PecDecidesResult ==
    (sret.op = "MLX90614ReadTemp" /\ txn.err = ESP_OK) =>
        IF txn.pec = CalculateCrc8(<<180, 7, 181, txn.lsb, txn.msb>>, 5)
        THEN sret.val = RETURN_NUM_MLX90614_READSUCCESSFULLY
        ELSE sret.val = RETURN_NUM_MLX90614_READFAIL

\* a completed transfer of raw 0x4441 with the matching pec was accepted
C1_Witness ==
    /\ sret.op = "MLX90614ReadTemp"
    /\ txn = [err |-> ESP_OK, lsb |-> 65, msb |-> 68, pec |-> 147]
    /\ sret.val = RETURN_NUM_MLX90614_READSUCCESSFULLY

\* C2: a call of MLX90614ReadTemp that fails (transfer not completed, or pec
\* mismatch) leaves *tempcelsius and *tempfahrenheit as they were; a call that
\* succeeds stores the sample of its own transfer in both.
C2_FailureWritesNothing ==
    [][sret'.op = "MLX90614ReadTemp" =>
          IF sret'.val = RETURN_NUM_MLX90614_READFAIL
          THEN /\ tempcelsius' = tempcelsius
               /\ tempfahrenheit' = tempfahrenheit
          ELSE /\ sret'.val = RETURN_NUM_MLX90614_READSUCCESSFULLY
               /\ tempcelsius' = 2 * (256 * txn'.msb + txn'.lsb) - 27315
               /\ tempfahrenheit' = 18 * tempcelsius' + 32000]_vars

\* a transfer of raw 0 was rejected for its pec while the outputs still hold
\* the sample of an earlier accepted transfer of raw 0x4441 (76.31 degrees)
C2_Witness ==
    /\ sret.op = "MLX90614ReadTemp"
    /\ sret.val = RETURN_NUM_MLX90614_READFAIL
    /\ txn = [err |-> ESP_OK, lsb |-> 0, msb |-> 0, pec |-> 255]
    /\ tempcelsius = 7631
    /\ tempfahrenheit = 169358

\* C3: for every byte sequence of length 0..5, CalculateCrc8 returns its CRC-8
\* with polynomial 0x07, zero initial value, MSB first, not reflected, no final
\* xor; the result is a byte, and the all-zero frame of five bytes gives 0x00.
C3_Crc8IsPolynomialRemainder ==
    crcRes # -1 =>
        /\ crcRes = Crc8Ref(SubSeq(crcBuf, 1, crcLen))
        /\ crcRes \in 0..255
        /\ SubSeq(crcBuf, 1, crcLen) = <<0, 0, 0, 0, 0>> => crcRes = 0

\* the CRC of the all-zero frame of five bytes was computed
C3_Witness ==
    /\ crcBuf = <<0, 0, 0, 0, 0>>
    /\ crcLen = 5
    /\ crcRes = 0

(***************************************************************************)
(* Properties of the storage driver. ret is the call just made; in an      *)
(* action formula the unprimed variables are the state the call was made   *)
(* in.                                                                     *)
(***************************************************************************)
\* C4, as the specification states it: AppendFile on a path that holds no file
\* returns RETURN_NUM_SDCARD_APPENDFAIL and creates nothing, FileExists on the
\* path being false afterwards. (Violated: fopen(path, "a") creates the file.)
C4_AppendToMissingFileFails ==
    [][(ret'.op = "AppendFile" /\ ~files[ret'.path].exists) =>
          /\ ret'.val = RETURN_NUM_SDCARD_APPENDFAIL
          /\ ~files'[ret'.path].exists
          /\ ~FileExists(Sys', ret'.path).val]_vars

\* C5, as the specification states it: a ReadFile that succeeds on a file made
\* by a successful CreateFile and touched since only by AppendFile calls that
\* returned RETURN_NUM_SDCARD_APPENDSUCCESSFULLY prints exactly the lines
\* appended, one per call, in call order. (Violated: on a full card AppendFile
\* reports success for a line that was not written.)
C5_ReadBackShowsAppendedLines ==
    (ret.op = "ReadFile" /\ ret.val = RETURN_NUM_SDCARD_READSUCCESSFULL
                         /\ appended[ret.path].on) =>
        ret.out = [i \in 1..Len(appended[ret.path].lines) |->
                      <<appended[ret.path].lines[i], NL>>]

C7_InitSdCardLeaksNothing ==
    [][ret'.op = "InitSdCard" =>
          /\ \/ /\ ret'.calls = <<"spi_bus_initialize">>
                /\ ret'.val # RETURN_NUM_SDCARD_MOUNTSUCCESSFULLY
             \/ /\ ret'.calls = <<"spi_bus_initialize", "esp_vfs_fat_sdspi_mount",
                                  "spi_bus_free">>
                /\ ret'.val = RETURN_NUM_SDCARD_MOUNTFAIL
                /\ ~busHeld
             \/ /\ ret'.calls = <<"spi_bus_initialize", "esp_vfs_fat_sdspi_mount">>
                /\ ret'.val = RETURN_NUM_SDCARD_MOUNTSUCCESSFULLY
                /\ ~busHeld
          /\ ret'.val = RETURN_NUM_SDCARD_MOUNTSUCCESSFULLY => busHeld' /\ mounted'
          /\ ret'.val # RETURN_NUM_SDCARD_MOUNTSUCCESSFULLY =>
                /\ busHeld' = busHeld
                /\ mounted' = mounted
                /\ card' = card
          /\ (~busHeld /\ ~mounted) =>
                ((busHeld' /\ mounted') <=>
                    ret'.val = RETURN_NUM_SDCARD_MOUNTSUCCESSFULLY)]_vars

\* the mount failed and the bus InitSdCard had acquired is free again
C7_Witness ==
    /\ ret.op = "InitSdCard"
    /\ ret.val = RETURN_NUM_SDCARD_MOUNTFAIL
    /\ ret.calls = <<"spi_bus_initialize", "esp_vfs_fat_sdspi_mount", "spi_bus_free">>
    /\ ~busHeld
    /\ ~mounted

\* C7, as the specification states it: after InitSdCard returns, the bus is
\* held and the card mounted if and only if the call reported success
C7_HeldIffSuccess ==
    ret.op = "InitSdCard" =>
        ((busHeld /\ mounted) <=> ret.val = RETURN_NUM_SDCARD_MOUNTSUCCESSFULLY)

\* C8: called while nothing is mounted, FileExists and CreateFile return false,
\* WriteFile, ReadFile, AppendFile, DeleteFile and LogToSDCard their failure
\* codes, and none changes a file, the mount, the bus, the card handle or the
\* number of open files; the LogToSDCard call InitSdCard starts with fails the
\* same way, and InitSdCard changes no file.
C8_UnmountedOperationsFail ==
    [][~mounted =>
          /\ ret'.op \in {"FileExists", "CreateFile"} => ret'.ok = FALSE
          /\ ret'.op = "WriteFile" => ret'.val = RETURN_NUM_SDCARD_WRITEFAIL
          /\ ret'.op = "ReadFile" =>
                ret'.val = RETURN_NUM_SDCARD_READFAIL /\ ret'.out = <<>>
          /\ ret'.op = "AppendFile" => ret'.val = RETURN_NUM_SDCARD_APPENDFAIL
          /\ ret'.op = "DeleteFile" => ret'.val = RETURN_NUM_SDCARD_DELETEFILEFAIL
          /\ ret'.op = "LogToSDCard" => ret'.val = RETURN_NUM_SDCARD_APPENDFAIL
          /\ ret'.op \in {"FileExists", "CreateFile", "WriteFile", "ReadFile",
                          "AppendFile", "DeleteFile", "LogToSDCard"} =>
                /\ files' = files
                /\ mounted' = mounted
                /\ busHeld' = busHeld
                /\ card' = card
                /\ openFiles' = openFiles
          /\ ret'.op = "InitSdCard" =>
                ret'.log = RETURN_NUM_SDCARD_APPENDFAIL /\ files' = files]_vars

\* AppendFile was called after SdCardUnmount had unmounted the card, and failed
C8_Witness ==
    /\ ret.op = "AppendFile"
    /\ ret.val = RETURN_NUM_SDCARD_APPENDFAIL
    /\ ~mounted
    /\ card = "stale"
    /\ files[MlxFilePath].exists

\* C9: called while the card is mounted, SdCardUnmount calls
\* esp_vfs_fat_sdcard_unmount and then spi_bus_free on the bus that is held, and
\* leaves the card unmounted and the bus free; called while nothing is mounted
\* (a second call included) it calls esp_vfs_fat_sdcard_unmount only and leaves
\* mount, bus and card handle as they were. No file changes either way.
C9_UnmountOrderedAndIdempotent ==
    [][ret'.op = "SdCardUnmount" =>
          /\ IF mounted
             THEN /\ busHeld
                  /\ ret'.calls = <<"esp_vfs_fat_sdcard_unmount", "spi_bus_free">>
                  /\ ret'.msg = "SD Card unmounted successfully."
                  /\ ~mounted'
                  /\ ~busHeld'
             ELSE /\ ret'.calls = <<"esp_vfs_fat_sdcard_unmount">>
                  /\ ret'.msg = "SD Card unmount failed."
                  /\ mounted' = mounted
                  /\ busHeld' = busHeld
                  /\ card' = card
          /\ files' = files]_vars

\* SdCardUnmount was called again after it had unmounted the card
C9_Witness ==
    /\ ret.op = "SdCardUnmount"
    /\ ret.msg = "SD Card unmount failed."
    /\ card = "stale"
    /\ ~mounted
    /\ ~busHeld

\* C10: DeleteFile on a path that holds no file (or with nothing mounted)
\* returns RETURN_NUM_SDCARD_DELETEFILEFAIL and changes no file; on a file that
\* exists it returns RETURN_NUM_SDCARD_DELETEFILESUCCESSFULLY, FileExists on the
\* path is false afterwards and every other file is as before.
C10_DeleteFileResult ==
    [][ret'.op = "DeleteFile" =>
          IF mounted /\ files[ret'.path].exists
          THEN /\ ret'.val = RETURN_NUM_SDCARD_DELETEFILESUCCESSFULLY
               /\ ~FileExists(Sys', ret'.path).val
               /\ \A q \in Paths \ {ret'.path} : files'[q] = files[q]
          ELSE /\ ret'.val = RETURN_NUM_SDCARD_DELETEFILEFAIL
               /\ files' = files]_vars

\* the temperature file was deleted while the log file stays on the card
C10_Witness ==
    /\ ret.op = "DeleteFile"
    /\ ret.path = MlxFilePath
    /\ ret.val = RETURN_NUM_SDCARD_DELETEFILESUCCESSFULLY
    /\ ~files[MlxFilePath].exists
    /\ files[LogFilePath].exists

C12_CreateFileKeepsExistingFile ==
    [][(ret'.op = "CreateFile" /\ mounted /\ files[ret'.path].exists) =>
          /\ ret'.ok
          /\ files'[ret'.path] = files[ret'.path]]_vars

\* C13, as SDCardHandler.h states it: InitSdCard returns 0 when it mounted the
\* card and 1 when it did not, never another value. (Violated: the esp_err_t
\* of spi_bus_initialize is returned through uint8_t.)
C13_InitSdCardReturnsZeroOrOne ==
    ret.op = "InitSdCard" =>
        IF ret.calls = <<"spi_bus_initialize", "esp_vfs_fat_sdspi_mount">>
        THEN ret.val = RETURN_NUM_SDCARD_MOUNTSUCCESSFULLY
        ELSE ret.val = RETURN_NUM_SDCARD_MOUNTFAIL

\* C14: FileExists changes no file, leaves the number of open files, the mount
\* and the bus as they were, returns true exactly when fopen(path, "r")
\* succeeds (a filesystem is mounted and holds the file), and called again
\* right afterwards returns the same and again changes nothing.
C14_FileExistsIsAProbe ==
    [][ret'.op = "FileExists" =>
          /\ files' = files
          /\ openFiles' = openFiles
          /\ mounted' = mounted
          /\ busHeld' = busHeld
          /\ card' = card
          /\ ret'.ok = FOpen(Sys, ret'.path, "r").ok
          /\ ret'.ok = (mounted /\ files[ret'.path].exists)
          /\ FileExists(Sys', ret'.path).val = ret'.ok
          /\ FileExists(Sys', ret'.path).S = Sys']_vars

\* FileExists found the temperature file an earlier run left, and no file is open
C14_Witness ==
    /\ ret.op = "FileExists"
    /\ ret.path = MlxFilePath
    /\ ret.ok
    /\ openFiles = 0
    /\ files[MlxFilePath] = [exists |-> TRUE, data |-> OldContent]

\* C17: the number of open files is the same after every call of FileExists,
\* CreateFile, WriteFile, ReadFile, AppendFile, DeleteFile and LogToSDCard as
\* before it, whether the call succeeded or failed; it is 0 in every state, so
\* below the mount's max_files.
C17_NoFileLeftOpen ==
    /\ [](openFiles = 0 /\ openFiles < MaxFiles)
    /\ [][ret'.op \in {"FileExists", "CreateFile", "WriteFile", "ReadFile",
                       "AppendFile", "DeleteFile", "LogToSDCard"} =>
             openFiles' = openFiles]_vars

\* ReadFile failed on a mounted card (the file is missing) and no file is open
C17_Witness ==
    /\ ret.op = "ReadFile"
    /\ ret.val = RETURN_NUM_SDCARD_READFAIL
    /\ mounted
    /\ openFiles = 0

\* C20, as the specification states it: AppendFile returns
\* RETURN_NUM_SDCARD_APPENDSUCCESSFULLY only if the line is in the file
\* afterwards, behind what the file held, and WriteFile returns
\* RETURN_NUM_SDCARD_WRITESUCCESSFULL only if the file holds its text
\* afterwards. (Violated: neither looks at what fprintf and fclose return.)
C20_NoWriteFailureSwallowed ==
    [][/\ (ret'.op = "AppendFile"
              /\ ret'.val = RETURN_NUM_SDCARD_APPENDSUCCESSFULLY) =>
             files'[ret'.path].data = files[ret'.path].data \o <<ret'.data, NL>>
       /\ (ret'.op = "WriteFile"
              /\ ret'.val = RETURN_NUM_SDCARD_WRITESUCCESSFULL) =>
             files'[ret'.path].data = WriteFileContent]_vars

\* C15: for a frame of five bytes, inverting any one of its 40 bits changes
\* what CalculateCrc8 returns; and with lsb and msb the frame's last two bytes
\* and pec the integrity byte MLX90614ReadTemp accepts them with, the read is
\* rejected when any one bit of lsb, of msb or of pec is inverted.
C15_SingleBitChangesCrc ==
    (crcLen = 5 /\ crcRes # -1) =>
        /\ \A i \in 1..5, k \in 0..7 :
              CalculateCrc8([crcBuf EXCEPT ![i] = BitXor(@, 2 ^ k)], 5) # crcRes
        /\ LET lsb == crcBuf[4]
               msb == crcBuf[5]
               pec == CalculateCrc8(PecBuffer(lsb, msb), 5)
           IN  /\ MLX90614ReadTemp(0, 0, ESP_OK, lsb, msb, pec).val
                     = RETURN_NUM_MLX90614_READSUCCESSFULLY
               /\ \A k \in 0..7 :
                     /\ MLX90614ReadTemp(0, 0, ESP_OK, BitXor(lsb, 2 ^ k), msb, pec).val
                           = RETURN_NUM_MLX90614_READFAIL
                     /\ MLX90614ReadTemp(0, 0, ESP_OK, lsb, BitXor(msb, 2 ^ k), pec).val
                           = RETURN_NUM_MLX90614_READFAIL
                     /\ MLX90614ReadTemp(0, 0, ESP_OK, lsb, msb, BitXor(pec, 2 ^ k)).val
                           = RETURN_NUM_MLX90614_READFAIL

\* the CRC of a frame of five bytes, none of them zero, was computed
C15_Witness ==
    /\ crcBuf = <<180, 7, 255, 7, 180>>
    /\ crcLen = 5
    /\ crcRes = 105

\* C16: after an accepted transaction the raw value is msb * 256 + lsb, within
\* 0..65535, *tempcelsius is raw * 0.02 - 273.15 (2 * raw - 27315 hundredths)
\* and *tempfahrenheit is 1.8 times that plus 32; raw 0 gives -273.15 and
\* -459.67, raw 17473 gives 76.31 and 169.358 (169.35 cut to hundredths).
C16_ConversionOfAcceptedSample ==
    (sret.op = "MLX90614ReadTemp"
        /\ sret.val = RETURN_NUM_MLX90614_READSUCCESSFULLY) =>
        LET raw == txn.msb * 256 + txn.lsb
        IN  /\ raw \in 0..65535
            /\ RawTemp(txn.lsb, txn.msb) = raw
            /\ tempcelsius = 2 * raw - 27315
            /\ 10 * tempfahrenheit = 18 * (10 * tempcelsius) + 320000
            /\ raw = 0 => tempcelsius = -27315 /\ tempfahrenheit = -459670
            /\ raw = 17473 =>
                  /\ txn.msb = 68 /\ txn.lsb = 65
                  /\ tempcelsius = 7631
                  /\ tempfahrenheit \div 10 = 16935

\* the largest raw value, 0xFFFF, was accepted and converted
C16_Witness ==
    /\ sret.op = "MLX90614ReadTemp"
    /\ sret.val = RETURN_NUM_MLX90614_READSUCCESSFULLY
    /\ txn = [err |-> ESP_OK, lsb |-> 255, msb |-> 255, pec |-> 34]
    /\ tempcelsius = 103755
    /\ tempfahrenheit = 1899590

(***************************************************************************)
(* Properties of app_main.                                                 *)
(***************************************************************************)
\* the positions of app_main behind a successful InitSdCard
AfterMount == {"FileExists", "CreateFile", "MLX90614I2CInit", "settle",
               "MLX90614ReadTemp", "AppendFile", "vTaskDelay"}
\* the positions of app_main behind a successful MLX90614I2CInit
InLoop == {"settle", "MLX90614ReadTemp", "AppendFile", "vTaskDelay"}

\* C18: app_main calls InitSdCard, then FileExists and (for a missing file)
\* CreateFile, then MLX90614I2CInit, then in each iteration MLX90614ReadTemp
\* and AppendFile. No sensor call and no operation on MLX90614.txt is made
\* unless InitSdCard returned success; MLX90614ReadTemp is called only after
\* MLX90614I2CInit returned success; AppendFile is called only in an iteration
\* whose MLX90614ReadTemp returned success, with the value that read stored,
\* so the file grows by a line only then.
C18_CallOrder ==
    /\ [](/\ app.pc \in AfterMount =>
                app.mount = RETURN_NUM_SDCARD_MOUNTSUCCESSFULLY
          /\ app.pc \in {"InitSdCard", "FileExists", "CreateFile"} =>
                app.i2c = -1 /\ sret = NoSensorCall
          /\ app.pc \in InLoop =>
                app.i2c = RETURN_NUM_MLX90614_INITSUCCESSFULLY /\ i2cInstalled
          /\ app.pc = "AppendFile" =>
                /\ app.read = RETURN_NUM_MLX90614_READSUCCESSFULLY
                /\ sret = [op |-> "MLX90614ReadTemp",
                           val |-> RETURN_NUM_MLX90614_READSUCCESSFULLY]
          /\ app.mount # RETURN_NUM_SDCARD_MOUNTSUCCESSFULLY =>
                /\ sret = NoSensorCall
                /\ ret.op \in {"none", "InitSdCard"}
                /\ app.reads = 0)
    /\ [][/\ (sret' # sret \/ i2cInstalled' # i2cInstalled) =>
                app.mount = RETURN_NUM_SDCARD_MOUNTSUCCESSFULLY
          /\ (ret' # ret /\ ret'.path = MlxFilePath) =>
                app.mount = RETURN_NUM_SDCARD_MOUNTSUCCESSFULLY
          /\ (app'.reads # app.reads \/ txn' # txn) =>
                /\ app.pc = "MLX90614ReadTemp"
                /\ app.i2c = RETURN_NUM_MLX90614_INITSUCCESSFULLY
                /\ sret'.op = "MLX90614ReadTemp"
          /\ (ret'.op = "CreateFile" /\ ret' # ret) =>
                /\ ret.op = "FileExists" /\ ~ret.ok
                /\ app.i2c = -1
          /\ (ret'.op = "AppendFile" /\ (ret' # ret \/ files' # files)) =>
                /\ app.pc = "AppendFile"
                /\ app.read = RETURN_NUM_MLX90614_READSUCCESSFULLY
                /\ ret'.data = FinalData(tempcelsius)
                /\ tempcelsius = Celsius(RawTemp(txn.lsb, txn.msb))
          /\ Len(files'[MlxFilePath].data) > Len(files[MlxFilePath].data) =>
                /\ app.pc = "AppendFile"
                /\ sret.val = RETURN_NUM_MLX90614_READSUCCESSFULLY
                /\ files'[MlxFilePath].data =
                      files[MlxFilePath].data \o <<FinalData(tempcelsius), NL>>
         ]_vars

\* a read was rejected and wrote no line, then one was accepted and its line
\* appended to the file CreateFile had made
C18_Witness ==
    /\ app.pc = "vTaskDelay"
    /\ app.read = RETURN_NUM_MLX90614_READSUCCESSFULLY
    /\ app.reads = 0
    /\ ret.op = "AppendFile"
    /\ app.numstatus = RETURN_NUM_SDCARD_APPENDSUCCESSFULLY
    /\ app.finaldata = "celsius=76.31"
    /\ files[MlxFilePath].data = <<"celsius=76.31", NL>>

\* C19: once InitSdCard and MLX90614I2CInit returned success, app_main never
\* returns, and after a failed read as after a failed append another
\* MLX90614ReadTemp call follows.
C19_PollingGoesOn ==
    /\ [](app.i2c = RETURN_NUM_MLX90614_INITSUCCESSFULLY =>
             app.pc \in InLoop)
    /\ \A n \in {0, 1} :
          (app.reads = n /\ app.read = RETURN_NUM_MLX90614_READFAIL)
              ~> (app.reads # n)
    /\ \A n \in {0, 1} :
          (app.reads = n /\ app.pc = "vTaskDelay" /\ ret.op = "AppendFile"
              /\ app.numstatus = RETURN_NUM_SDCARD_APPENDFAIL)
              ~> (app.reads # n)

\* an append failed, and the read that followed it failed as well
C19_Witness ==
    /\ app.pc = "vTaskDelay"
    /\ app.numstatus = RETURN_NUM_SDCARD_APPENDFAIL
    /\ ret.op = "AppendFile"
    /\ app.read = RETURN_NUM_MLX90614_READFAIL
    /\ sret = [op |-> "MLX90614ReadTemp", val |-> RETURN_NUM_MLX90614_READFAIL]

\* s is the beginning of t
IsPrefix(s, t) == Len(s) <= Len(t) /\ SubSeq(t, 1, Len(s)) = s

\* C21: while app_main runs the files only grow: CreateFile is called only
\* directly after FileExists returned false for the path, every other access
\* appends, so a file that exists stays, and what it held is the beginning of
\* what it holds after every step.
C21_FilesOnlyGrow ==
    [][/\ (ret'.op = "CreateFile" /\ ret' # ret) =>
              ret.op = "FileExists" /\ ret.path = ret'.path /\ ~ret.ok
       /\ \A p \in Paths :
              files[p].exists =>
                  /\ files'[p].exists
                  /\ IsPrefix(files[p].data, files'[p].data)
      ]_vars

====
